---------------------------- MODULE Spec2Model ----------------------------
(***************************************************************************)
(* A model of the process standard library's top-level functions           *)
(* (src/src/lib.rs): the receive loop (await_message,                      *)
(* await_next_message_body), the typed accessors (get_typed_blob,          *)
(* get_typed_state) and the capability lookups (can_message,               *)
(* get_capability), run against a model of the kernel interface they call  *)
(* (receive, get_blob, get_state, set_state, our_capabilities).            *)
(*                                                                         *)
(* Texts (capability params) are sequences of one-character strings, so    *)
(* that textual equality and JSON equality are different relations.        *)
(* Byte strings are sequences of numbers.  Option<T> is a sequence of      *)
(* length 0 (None) or 1 (Some).                                            *)
(***************************************************************************)
EXTENDS Naturals, Integers, Sequences, FiniteSets, TLC

VARIABLES
    capabilities,   \* the kernel's capability store of this process
    queue,          \* the kernel's queue of deliveries pending for this process
    last_blob,      \* the kernel's single blob slot
    state,          \* the kernel's persisted state of this process
    received,       \* history: the blobs of the last two messages received
    last            \* the last library call: its arguments, what the kernel held
                    \* when it was made, its result and its kernel calls

vars == <<capabilities, queue, last_blob, state, received, last>>

\* Bounds of the model.
MaxCaps == 2
MaxQueue == 2

None == << >>
Some(x) == <<x>>

Ok(x) == [ok |-> TRUE, val |-> x]
Err(e) == [ok |-> FALSE, err |-> e]

(***************************************************************************)
(* serde_json::from_str::<Value>, as called by get_capability.             *)
(* A Value is Null, Bool, Number (PosInt, NegInt or Float), String, Array  *)
(* or Object; an Object is a map from keys to values, so the order of the  *)
(* keys in the text is lost and a repeated key keeps its last value.       *)
(* A Float is kept as mantissa * 10^exponent with the mantissa not         *)
(* divisible by 10, which decides f64 equality for the short decimals of   *)
(* the model.  Strings are parsed with the one-character escapes; \u       *)
(* escapes are outside the alphabet of the modelled texts.                 *)
(***************************************************************************)
Whitespace == {" ", "\t", "\n", "\r"}
Digits == {"0", "1", "2", "3", "4", "5", "6", "7", "8", "9"}

DigitValue(c) ==
    CASE c = "0" -> 0 [] c = "1" -> 1 [] c = "2" -> 2 [] c = "3" -> 3
      [] c = "4" -> 4 [] c = "5" -> 5 [] c = "6" -> 6 [] c = "7" -> 7
      [] c = "8" -> 8 [] c = "9" -> 9

JsonNull == [t |-> "null"]
JsonBool(b) == [t |-> "bool", b |-> b]
JsonString(s) == [t |-> "str", s |-> s]
JsonArray(a) == [t |-> "arr", a |-> a]
JsonObject(o) == [t |-> "obj", o |-> o]
JsonNumber(n, m, e) == [t |-> "num", n |-> n, m |-> m, e |-> e]

ParseFail == [ok |-> FALSE]
Parsed(v, i) == [ok |-> TRUE, v |-> v, i |-> i]

At(s, i) == IF i >= 1 /\ i <= Len(s) THEN s[i] ELSE "EOF"

RECURSIVE parse_whitespace(_, _)
parse_whitespace(s, i) ==
    IF At(s, i) \in Whitespace THEN parse_whitespace(s, i + 1) ELSE i

\* A run of digits from position i: its value, its length, the next position.
RECURSIVE parse_digits(_, _, _, _)
parse_digits(s, i, acc, cnt) ==
    IF At(s, i) \in Digits
    THEN parse_digits(s, i + 1, acc * 10 + DigitValue(s[i]), cnt + 1)
    ELSE [n |-> acc, cnt |-> cnt, i |-> i]

RECURSIVE Pow10(_)
Pow10(k) == IF k = 0 THEN 1 ELSE 10 * Pow10(k - 1)

RECURSIVE NormalizeFloat(_, _)
NormalizeFloat(m, e) ==
    IF m = 0 THEN JsonNumber("Float", 0, 0)
    ELSE IF m % 10 = 0 THEN NormalizeFloat(m \div 10, e + 1)
    ELSE JsonNumber("Float", m, e)

\* A float from sign, integer mantissa and decimal exponent (may be negative).
MakeFloat(neg, m, e) ==
    LET n == NormalizeFloat(m, e)
    IN  IF neg THEN [n EXCEPT !.m = 0 - @] ELSE n

parse_number(s, i0) ==
    LET neg == At(s, i0) = "-"
        i == IF neg THEN i0 + 1 ELSE i0
        int == IF At(s, i) = "0" THEN [n |-> 0, cnt |-> 1, i |-> i + 1]
               ELSE parse_digits(s, i, 0, 0)
        hasFrac == At(s, int.i) = "."
        frac == IF hasFrac THEN parse_digits(s, int.i + 1, 0, 0)
                ELSE [n |-> 0, cnt |-> 0, i |-> int.i]
        hasExp == At(s, frac.i) \in {"e", "E"}
        expNeg == hasExp /\ At(s, frac.i + 1) = "-"
        expAt == IF hasExp
                 THEN (IF At(s, frac.i + 1) \in {"+", "-"} THEN frac.i + 2
                       ELSE frac.i + 1)
                 ELSE frac.i
        exp == IF hasExp THEN parse_digits(s, expAt, 0, 0)
               ELSE [n |-> 0, cnt |-> 0, i |-> frac.i]
        mant == int.n * Pow10(frac.cnt) + frac.n
        e10 == (IF expNeg THEN 0 - exp.n ELSE exp.n) - frac.cnt
    IN  IF int.cnt = 0 THEN ParseFail
        ELSE IF At(s, i) = "0" /\ At(s, i + 1) \in Digits THEN ParseFail
        ELSE IF hasFrac /\ frac.cnt = 0 THEN ParseFail
        ELSE IF hasExp /\ exp.cnt = 0 THEN ParseFail
        ELSE IF hasFrac \/ hasExp THEN Parsed(MakeFloat(neg, mant, e10), exp.i)
        ELSE IF ~neg THEN Parsed(JsonNumber("PosInt", int.n, 0), int.i)
        ELSE IF int.n = 0 THEN Parsed(JsonNumber("Float", 0, 0), int.i)
        ELSE Parsed(JsonNumber("NegInt", 0 - int.n, 0), int.i)

Escapes ==
    [c \in {"\"", "\\", "/", "b", "f", "n", "r", "t"} |->
        CASE c = "\"" -> "\"" [] c = "\\" -> "\\" [] c = "/" -> "/"
          [] c = "b" -> "BS" [] c = "f" -> "\f" [] c = "n" -> "\n"
          [] c = "r" -> "\r" [] c = "t" -> "\t"]

ControlChars == {"\t", "\n", "\r", "\f"}

\* The characters of a string from position i (after the opening quote).
RECURSIVE parse_str(_, _, _)
parse_str(s, i, acc) ==
    LET c == At(s, i)
    IN  IF c = "EOF" \/ c \in ControlChars THEN ParseFail
        ELSE IF c = "\"" THEN Parsed(acc, i + 1)
        ELSE IF c = "\\"
             THEN (IF At(s, i + 1) \in DOMAIN Escapes
                   THEN parse_str(s, i + 2, Append(acc, Escapes[At(s, i + 1)]))
                   ELSE ParseFail)
        ELSE parse_str(s, i + 1, Append(acc, c))

IsIdent(s, i, word) ==
    /\ i + Len(word) - 1 <= Len(s)
    /\ SubSeq(s, i, i + Len(word) - 1) = word

RECURSIVE parse_value(_, _), parse_seq(_, _, _), parse_map(_, _, _)

\* One value from position i (whitespace already skipped).
parse_value(s, i) ==
    LET c == At(s, i)
    IN  IF c = "n" THEN (IF IsIdent(s, i, <<"n", "u", "l", "l">>)
                         THEN Parsed(JsonNull, i + 4) ELSE ParseFail)
        ELSE IF c = "t" THEN (IF IsIdent(s, i, <<"t", "r", "u", "e">>)
                              THEN Parsed(JsonBool(TRUE), i + 4) ELSE ParseFail)
        ELSE IF c = "f" THEN (IF IsIdent(s, i, <<"f", "a", "l", "s", "e">>)
                              THEN Parsed(JsonBool(FALSE), i + 5) ELSE ParseFail)
        ELSE IF c = "-" \/ c \in Digits THEN parse_number(s, i)
        ELSE IF c = "\""
             THEN (LET r == parse_str(s, i + 1, << >>)
                   IN  IF r.ok THEN Parsed(JsonString(r.v), r.i) ELSE ParseFail)
        ELSE IF c = "["
             THEN (LET j == parse_whitespace(s, i + 1)
                   IN  IF At(s, j) = "]" THEN Parsed(JsonArray(<< >>), j + 1)
                       ELSE parse_seq(s, j, << >>))
        ELSE IF c = "{"
             THEN (LET j == parse_whitespace(s, i + 1)
                   IN  IF At(s, j) = "}" THEN Parsed(JsonObject(<< >>), j + 1)
                       ELSE parse_map(s, j, << >>))
        ELSE ParseFail

\* The elements of an array from position i, which starts an element.
parse_seq(s, i, acc) ==
    LET r == parse_value(s, i)
        j == IF r.ok THEN parse_whitespace(s, r.i) ELSE 0
    IN  IF ~r.ok THEN ParseFail
        ELSE IF At(s, j) = "]" THEN Parsed(JsonArray(Append(acc, r.v)), j + 1)
        ELSE IF At(s, j) = ","
             THEN parse_seq(s, parse_whitespace(s, j + 1), Append(acc, r.v))
        ELSE ParseFail

\* The entries of an object from position i, which starts a key.
parse_map(s, i, acc) ==
    LET k == IF At(s, i) = "\"" THEN parse_str(s, i + 1, << >>) ELSE ParseFail
        c == IF k.ok THEN parse_whitespace(s, k.i) ELSE 0
        r == IF k.ok /\ At(s, c) = ":"
             THEN parse_value(s, parse_whitespace(s, c + 1)) ELSE ParseFail
        j == IF r.ok THEN parse_whitespace(s, r.i) ELSE 0
        \* insert: a repeated key keeps the later value
        ins == IF r.ok
               THEN [x \in (DOMAIN acc) \cup {k.v} |->
                        IF x = k.v THEN r.v ELSE acc[x]]
               ELSE acc
    IN  IF ~r.ok THEN ParseFail
        ELSE IF At(s, j) = "}" THEN Parsed(JsonObject(ins), j + 1)
        ELSE IF At(s, j) = "," THEN parse_map(s, parse_whitespace(s, j + 1), ins)
        ELSE ParseFail

\* Deserializer::end after the value: one value, whitespace around it,
\* nothing after it.
from_str_parse(s) ==
    LET r == parse_value(s, parse_whitespace(s, 1))
    IN  IF ~r.ok THEN Err("syntax")
        ELSE IF parse_whitespace(s, r.i) = Len(s) + 1 THEN Ok(r.v)
        ELSE Err("trailing characters")

(***************************************************************************)
(* Values of the model: addresses, capabilities, blobs, messages.          *)
(***************************************************************************)
ProcessId(name, package, publisher) ==
    [process_name |-> name, package_name |-> package, publisher_node |-> publisher]
Address(node, process) == [node |-> node, process |-> process]

\* The source await_message gives the message echoed by a send error.
NetAddress == Address("our", ProcessId("net", "distro", "sys"))

AppProcess == ProcessId("app", "pkg", "pub.os")
LocalApp == Address("our", AppProcess)
RemoteApp == Address("remote.os", AppProcess)

\* The issuers of the capabilities held and looked up.
Addresses == {NetAddress, RemoteApp}

\* The params can_message looks for: the text "messaging" in double quotes.
MessagingParams == <<"\"", "m", "e", "s", "s", "a", "g", "i", "n", "g", "\"">>

\* The same JSON string after a space; {"a":1,"b":2} and {"b":2,"a":1};
\* the text null; a truncated object; the empty text.
SpacedMessaging == <<" ">> \o MessagingParams
ObjectAB == <<"{", "\"", "a", "\"", ":", "1", ",", "\"", "b", "\"", ":", "2", "}">>
ObjectBA == <<"{", "\"", "b", "\"", ":", "2", ",", "\"", "a", "\"", ":", "1", "}">>
NullText == <<"n", "u", "l", "l">>
TruncatedText == <<"{", "\"", "a", "\"", ":">>
EmptyText == << >>

ParamTexts ==
    {MessagingParams, SpacedMessaging, ObjectAB, ObjectBA, NullText,
     TruncatedText, EmptyText}

\* from_str_parse of every text of the model, computed once.
FromStrOfParamTexts == [t \in ParamTexts |-> from_str_parse(t)]

\* serde_json::from_str::<Value>, of a text of the model
from_str(s) == FromStrOfParamTexts[s]

\* Result::unwrap_or_default for Value: Value::default() is Null.
unwrap_or_default(r) == IF r.ok THEN r.val ELSE JsonNull

Capability(issuer, params) == [issuer |-> issuer, params |-> params]
Capabilities == {Capability(a, p) : a \in Addresses, p \in ParamTexts}

Blob1 == [mime |-> Some("text/plain"), bytes |-> <<1, 2>>]
Blob2 == [mime |-> None, bytes |-> <<7>>]

\* The low-level (WIT) messages: Request(request) and
\* Response((response, context)).
WitRequest(inherit, expects_response, body, metadata, caps) ==
    [type |-> "Request", inherit |-> inherit, expects_response |-> expects_response,
     body |-> body, metadata |-> metadata, capabilities |-> caps]
WitResponse(inherit, body, metadata, caps, context) ==
    [type |-> "Response",
     response |-> [inherit |-> inherit, body |-> body, metadata |-> metadata,
                   capabilities |-> caps],
     context |-> context]

WitOffline == "standard::SendErrorKind::Offline"
WitTimeout == "standard::SendErrorKind::Timeout"
Offline == "SendErrorKind::Offline"
Timeout == "SendErrorKind::Timeout"

WitMessage1 ==
    WitRequest(FALSE, Some(5), <<1, 2>>, Some("meta"),
               <<Capability(NetAddress, MessagingParams)>>)
WitMessage2 == WitRequest(TRUE, None, << >>, None, << >>)
WitMessage3 ==
    WitResponse(FALSE, <<3>>, None,
                <<Capability(LocalApp, ObjectAB),
                  Capability(NetAddress, NullText)>>,
                Some(<<9>>))

\* What the kernel can queue for the process: a message from a source, with
\* its blob, or a send error (kind, the message echoed, its blob) with the
\* context of the request that failed.
Message(source, message, blob) ==
    [ret |-> Ok([source |-> source, message |-> message]), blob |-> blob]
SendErr(kind, message, blob, context) ==
    [ret |-> Err([send_err |-> [kind |-> kind, message |-> message,
                                lazy_load_blob |-> blob],
                  context |-> context]),
     blob |-> None]

Deliveries ==
    {Message(RemoteApp, WitMessage1, Some(Blob1)),
     Message(LocalApp, WitMessage3, Some(Blob2)),
     Message(NetAddress, WitMessage2, None),
     SendErr(WitTimeout, WitMessage1, Some(Blob1), Some(<<9>>)),
     SendErr(WitOffline, WitMessage2, None, None),
     SendErr(WitOffline, WitMessage3, Some(Blob2), Some(<< >>))}

States == {<<4, 5>>, << >>}

\* The decoders a caller passes to get_typed_blob and get_typed_state.
Deserializers == {"to_vec", "first", "len2", "reject"}
deserializer(f, bytes) ==
    CASE f = "to_vec" -> Ok(bytes)
      [] f = "first" -> IF bytes # << >> THEN Ok(bytes[1]) ELSE Err("empty")
      [] f = "len2" -> IF Len(bytes) = 2 THEN Ok(bytes[1] * 256 + bytes[2])
                                         ELSE Err("length")
      [] f = "reject" -> Err("rejected")

(***************************************************************************)
(* The kernel interface.                                                   *)
(***************************************************************************)
LastTwo(h) == IF Len(h) > 2 THEN SubSeq(h, Len(h) - 1, Len(h)) ELSE h

our_capabilities == capabilities
get_blob == last_blob
get_state == state

\* receive(): the head of the queue; a message's blob replaces the slot, a
\* send error leaves it.
receive_from(k) ==
    LET d == Head(k.queue)
    IN  [ret |-> d.ret,
         queue |-> Tail(k.queue),
         last_blob |-> IF d.ret.ok THEN d.blob ELSE k.last_blob,
         received |-> IF d.ret.ok THEN LastTwo(Append(k.received, d.blob))
                      ELSE k.received,
         calls |-> <<"receive">>]

receive ==
    receive_from([queue |-> queue, last_blob |-> last_blob, received |-> received])

(***************************************************************************)
(* message.rs, as far as lib.rs uses it.                                   *)
(***************************************************************************)
wit_message_to_message(source, message) ==
    IF message.type = "Request"
    THEN [type |-> "Request", source |-> source,
          expects_response |-> message.expects_response,
          body |-> message.body, metadata |-> message.metadata,
          capabilities |-> message.capabilities]
    ELSE [type |-> "Response", source |-> source,
          body |-> message.response.body, metadata |-> message.response.metadata,
          context |-> message.context,
          capabilities |-> message.response.capabilities]

\* Message::body
body(msg) == msg.body

(***************************************************************************)
(* lib.rs                                                                  *)
(***************************************************************************)
SendErrorKindAllOffline(kind) == Offline

\* the match on send_err.kind in await_message
SendErrorKind(kind) ==
    CASE kind = WitOffline -> Offline
      [] kind = WitTimeout -> Timeout

SendError(r) ==
    [kind |-> SendErrorKind(r.ret.err.send_err.kind),
     message |-> wit_message_to_message(NetAddress, r.ret.err.send_err.message),
     lazy_load_blob |-> r.ret.err.send_err.lazy_load_blob,
     context |-> r.ret.err.context]

\* A receive layer that answers a send error by receiving again.
await_message_retry ==
    LET r == receive
        again == ~r.ret.ok /\ r.queue # << >>
        r2 == IF again
              THEN [receive_from(r) EXCEPT !.calls = r.calls \o @]
              ELSE r
    IN  [result |-> IF r2.ret.ok
                    THEN Ok(wit_message_to_message(r2.ret.val.source,
                                                   r2.ret.val.message))
                    ELSE Err(SendError(r2)),
         queue |-> r2.queue, last_blob |-> r2.last_blob,
         received |-> r2.received, calls |-> r2.calls]

\* A receive layer that gives every message the synthetic source.
await_message_synthetic_source ==
    LET r == receive
    IN  [result |-> IF r.ret.ok
                    THEN Ok(wit_message_to_message(NetAddress, r.ret.val.message))
                    ELSE Err(SendError(r)),
         queue |-> r.queue, last_blob |-> r.last_blob,
         received |-> r.received, calls |-> r.calls]

await_message ==
    LET r == receive
    IN  [result |-> IF r.ret.ok
                    THEN Ok(wit_message_to_message(r.ret.val.source,
                                                   r.ret.val.message))
                    ELSE Err(SendError(r)),
         queue |-> r.queue, last_blob |-> r.last_blob,
         received |-> r.received, calls |-> r.calls]

\* An await_next_message_body that answers a send error with the body of
\* the message echoed.
await_next_message_body_echo ==
    LET m == await_message
    IN  [m EXCEPT !.result = IF m.result.ok THEN Ok(body(m.result.val))
                             ELSE Ok(body(m.result.err.message))]

\* e.into() of a SendError into a SendError is the value itself.
await_next_message_body ==
    LET m == await_message
    IN  [m EXCEPT !.result = IF m.result.ok THEN Ok(body(m.result.val))
                             ELSE Err(m.result.err)]

\* A get_typed_blob that reads the persisted state.
get_typed_blob_of_state(f) ==
    [result |-> IF get_state # None
                THEN (LET thing == deserializer(f, get_state[1])
                      IN  IF thing.ok THEN Some(thing.val) ELSE None)
                ELSE None,
     calls |-> <<"get_state">>]

get_typed_blob(f) ==
    [result |-> IF get_blob # None
                THEN (LET thing == deserializer(f, get_blob[1].bytes)
                      IN  IF thing.ok THEN Some(thing.val) ELSE None)
                ELSE None,
     calls |-> <<"get_blob">>]

\* A get_typed_state that hands out the raw bytes when the decoder fails.
get_typed_state_raw(f) ==
    [result |-> IF get_state # None
                THEN (LET thing == deserializer(f, get_state[1])
                      IN  IF thing.ok THEN Some(thing.val) ELSE Some(get_state[1]))
                ELSE None,
     calls |-> <<"get_state">>]

get_typed_state(f) ==
    [result |-> IF get_state # None
                THEN (LET thing == deserializer(f, get_state[1])
                      IN  IF thing.ok THEN Some(thing.val) ELSE None)
                ELSE None,
     calls |-> <<"get_state">>]

\* A can_message that forgets the params.
can_message_any_params(address) ==
    \E i \in 1..Len(our_capabilities) : our_capabilities[i].issuer = address

\* A can_message that forgets the issuer.
can_message_any_issuer(address) ==
    \E i \in 1..Len(our_capabilities) :
        our_capabilities[i].params = MessagingParams

can_message(address) ==
    \E i \in 1..Len(our_capabilities) :
        /\ our_capabilities[i].params = MessagingParams
        /\ our_capabilities[i].issuer = address

FirstOf(S) == CHOOSE i \in S : \A j \in S : i <= j

\* A get_capability that compares the params as texts.
get_capability_by_text(our, params) ==
    LET found == {i \in 1..Len(our_capabilities) :
                    /\ our_capabilities[i].issuer = our
                    /\ params = our_capabilities[i].params}
    IN  IF found = {} THEN None ELSE Some(our_capabilities[FirstOf(found)])

\* A get_capability that finds nothing for params it cannot parse.
get_capability_strict(our, params) ==
    LET found == {i \in 1..Len(our_capabilities) :
                    /\ our_capabilities[i].issuer = our
                    /\ from_str(params).ok
                    /\ from_str(our_capabilities[i].params).ok
                    /\ from_str(params).val = from_str(our_capabilities[i].params).val}
    IN  IF found = {} THEN None ELSE Some(our_capabilities[FirstOf(found)])

get_capability(our, params) ==
    LET p == unwrap_or_default(from_str(params))
        found == {i \in 1..Len(our_capabilities) :
                    /\ our_capabilities[i].issuer = our
                    /\ p = unwrap_or_default(from_str(our_capabilities[i].params))}
    IN  IF found = {} THEN None ELSE Some(our_capabilities[FirstOf(found)])

(***************************************************************************)
(* The state machine: the kernel's steps and the process's calls.          *)
(***************************************************************************)
NoCall == [op |-> "none"]

Init ==
    /\ capabilities = << >>
    /\ queue = << >>
    /\ last_blob = None
    /\ state = None
    /\ received = << >>
    /\ last = NoCall

\* The kernel grants the process a capability.
KernelGrant(cap) ==
    /\ Len(capabilities) < MaxCaps
    /\ capabilities' = Append(capabilities, cap)
    /\ UNCHANGED <<queue, last_blob, state, received, last>>

\* The kernel queues a message or a send error for the process.
KernelDeliver(d) ==
    /\ Len(queue) < MaxQueue
    /\ queue' = Append(queue, d)
    /\ UNCHANGED <<capabilities, last_blob, state, received, last>>

\* set_state(bytes)
SetState(bytes) ==
    /\ state' = Some(bytes)
    /\ UNCHANGED <<capabilities, queue, last_blob, received, last>>

\* receive() blocks while the queue is empty.
AwaitMessage ==
    /\ queue # << >>
    /\ LET m == await_message
       IN  /\ queue' = m.queue
           /\ last_blob' = m.last_blob
           /\ received' = m.received
           /\ last' = [op |-> "await_message", delivery |-> Head(queue),
                       result |-> m.result, calls |-> m.calls,
                       taken |-> Len(queue) - Len(m.queue)]
    /\ UNCHANGED <<capabilities, state>>

AwaitNextMessageBody ==
    /\ queue # << >>
    /\ LET m == await_next_message_body
       IN  /\ queue' = m.queue
           /\ last_blob' = m.last_blob
           /\ received' = m.received
           /\ last' = [op |-> "await_next_message_body", delivery |-> Head(queue),
                       result |-> m.result, calls |-> m.calls,
                       taken |-> Len(queue) - Len(m.queue)]
    /\ UNCHANGED <<capabilities, state>>

GetTypedBlob(f) ==
    /\ LET t == get_typed_blob(f)
       IN  last' = [op |-> "get_typed_blob", deserializer |-> f,
                    present |-> IF last_blob = None THEN None
                                ELSE Some(last_blob[1].bytes),
                    result |-> t.result, calls |-> t.calls]
    /\ UNCHANGED <<capabilities, queue, last_blob, state, received>>

GetTypedState(f) ==
    /\ LET t == get_typed_state(f)
       IN  last' = [op |-> "get_typed_state", deserializer |-> f,
                    present |-> state,
                    result |-> t.result, calls |-> t.calls]
    /\ UNCHANGED <<capabilities, queue, last_blob, state, received>>

CanMessage(address) ==
    /\ last' = [op |-> "can_message", address |-> address,
                held |-> capabilities, result |-> can_message(address)]
    /\ UNCHANGED <<capabilities, queue, last_blob, state, received>>

GetCapability(our, params) ==
    /\ last' = [op |-> "get_capability", our |-> our, params |-> params,
                held |-> capabilities, result |-> get_capability(our, params)]
    /\ UNCHANGED <<capabilities, queue, last_blob, state, received>>

\* The capability store and the receive loop share no kernel state, and a
\* library call reads one of them only: each half is a specification of
\* its own, and Spec is the two together.

\* The capability store and its lookups.
NextCap ==
    \/ \E cap \in Capabilities : KernelGrant(cap)
    \/ \E a \in Addresses : CanMessage(a)
    \/ \E a \in Addresses, p \in ParamTexts : GetCapability(a, p)

SpecCap == Init /\ [][NextCap]_vars

\* The receive loop and the accessors.
NextRecv ==
    \/ \E d \in Deliveries : KernelDeliver(d)
    \/ \E b \in States : SetState(b)
    \/ AwaitMessage
    \/ AwaitNextMessageBody
    \/ \E f \in Deserializers : GetTypedBlob(f)
    \/ \E f \in Deserializers : GetTypedState(f)

SpecRecv == Init /\ [][NextRecv]_vars

Next == NextCap \/ NextRecv

Spec == Init /\ [][Next]_vars

(***************************************************************************)
(* The claims.                                                             *)
(***************************************************************************)
Held(caps) == {caps[i] : i \in 1..Len(caps)}

\* C1: can_message(a) is true iff the capabilities held contain one whose
\* issuer is a and whose params are the messaging marker; capabilities of
\* another issuer or with other params do not make it true.
C1_CanMessageIffMarkerHeld ==
    last.op = "can_message" =>
        (last.result = TRUE <=>
            \E c \in Held(last.held) :
                c.issuer = last.address /\ c.params = MessagingParams)

\* can_message answered true from the second capability held, the first
\* being the marker of another issuer.
C1_Witness ==
    /\ last.op = "can_message"
    /\ last.result = TRUE
    /\ Len(last.held) = 2
    /\ last.held[1].issuer # last.address
    /\ last.held[1].params = MessagingParams

\* The JSON value get_capability compares: the parsed text, null for a
\* text that does not parse (C9).
ValueOf(text) == IF from_str(text).ok THEN from_str(text).val ELSE JsonNull

Matches(cap, issuer, params) ==
    cap.issuer = issuer /\ ValueOf(cap.params) = ValueOf(params)

\* C2: get_capability(issuer, params) returns the first capability held, in
\* order, whose issuer is the given one and whose params are the same JSON
\* value as the given params, whatever the order of the keys in the texts;
\* it returns none when no capability held matches.
C2_GetCapabilityFirstMatch ==
    last.op = "get_capability" =>
        LET n == Len(last.held)
            hit(i) == Matches(last.held[i], last.our, last.params)
        IN  IF \E i \in 1..n : hit(i)
            THEN \E i \in 1..n :
                    /\ hit(i)
                    /\ \A j \in 1..(i - 1) : ~hit(j)
                    /\ last.result = Some(last.held[i])
            ELSE last.result = None

\* A lookup for {"b":2,"a":1} returned the capability held with params
\* {"a":1,"b":2}, the first of two that match.
C2_Witness ==
    /\ last.op = "get_capability"
    /\ last.params = ObjectBA
    /\ Len(last.held) = 2
    /\ last.held[1] = Capability(last.our, ObjectAB)
    /\ last.held[2] = Capability(last.our, ObjectBA)
    /\ last.result = Some(Capability(last.our, ObjectAB))

WitBody(message) ==
    IF message.type = "Request" THEN message.body ELSE message.response.body
WitMetadata(message) ==
    IF message.type = "Request" THEN message.metadata ELSE message.response.metadata
WitCapabilities(message) ==
    IF message.type = "Request" THEN message.capabilities
    ELSE message.response.capabilities

\* C3: when receive returns a send error, await_message returns a
\* SendError of the same kind (Offline for Offline, Timeout for Timeout),
\* with the body of the message echoed, with lazy_load_blob and context as
\* the kernel gave them, and with the networking process on node "our" as
\* the source of the message.
C3_SendErrorTranslated ==
    (last.op = "await_message" /\ ~last.delivery.ret.ok) =>
        LET low == last.delivery.ret.err
        IN  /\ ~last.result.ok
            /\ low.send_err.kind = WitOffline => last.result.err.kind = Offline
            /\ low.send_err.kind = WitTimeout => last.result.err.kind = Timeout
            /\ last.result.err.kind \in {Offline, Timeout}
            /\ last.result.err.message.body = WitBody(low.send_err.message)
            /\ last.result.err.lazy_load_blob = low.send_err.lazy_load_blob
            /\ last.result.err.context = low.context
            /\ last.result.err.message.source.node = "our"
            /\ last.result.err.message.source.process.process_name = "net"
            /\ last.result.err.message.source = NetAddress

\* await_message returned a Timeout with the body, blob and context of the
\* request that failed.
C3_Witness ==
    /\ last.op = "await_message"
    /\ ~last.delivery.ret.ok
    /\ last.delivery.ret.err.send_err.kind = WitTimeout
    /\ ~last.result.ok
    /\ last.result.err.kind = Timeout
    /\ last.result.err.message.body = <<1, 2>>
    /\ last.result.err.lazy_load_blob = Some(Blob1)
    /\ last.result.err.context = Some(<<9>>)

\* C4: when receive returns a source and a message, await_message returns
\* Ok with a Message of that source, body, metadata and capabilities, and
\* does not call get_blob.
C4_MessagePreserved ==
    (last.op = "await_message" /\ last.delivery.ret.ok) =>
        LET low == last.delivery.ret.val
        IN  /\ last.result.ok
            /\ last.result.val.type = low.message.type
            /\ last.result.val.source = low.source
            /\ last.result.val.body = WitBody(low.message)
            /\ last.result.val.metadata = WitMetadata(low.message)
            /\ last.result.val.capabilities = WitCapabilities(low.message)
            /\ \A i \in 1..Len(last.calls) : last.calls[i] # "get_blob"

\* await_message returned a request of a remote process that has a blob.
C4_Witness ==
    /\ last.op = "await_message"
    /\ last.delivery.ret.ok
    /\ last.delivery.blob # None
    /\ last.result.ok
    /\ last.result.val.source = RemoteApp
    /\ last.result.val.body = <<1, 2>>
    /\ last.result.val.metadata = Some("meta")
    /\ Len(last.result.val.capabilities) = 1

ReceiveOps == {"await_message", "await_next_message_body"}

\* C5: a call of await_message or await_next_message_body makes exactly
\* one kernel call, a receive, taking one delivery from the queue and
\* sending nothing; the call that receives a send error returns it as Err,
\* and the call that receives a message returns Ok.
C5_OneReceiveNoRetry ==
    last.op \in ReceiveOps =>
        /\ last.calls = <<"receive">>
        /\ last.taken = 1
        /\ last.result.ok <=> last.delivery.ret.ok
        /\ ~last.delivery.ret.ok =>
              /\ last.result.err.lazy_load_blob =
                    last.delivery.ret.err.send_err.lazy_load_blob
              /\ last.result.err.context = last.delivery.ret.err.context

\* A call received a send error while a message was waiting behind it, and
\* returned the error, leaving the message in the queue.
C5_Witness ==
    /\ last.op \in ReceiveOps
    /\ ~last.delivery.ret.ok
    /\ ~last.result.ok
    /\ queue # << >>
    /\ Head(queue).ret.ok

TypedOps == {"get_typed_blob", "get_typed_state"}

\* C7: get_typed_blob and get_typed_state return none when get_blob or
\* get_state returns none and when the decoder rejects the data returned,
\* and the decoded value when there is data and the decoder accepts it.
C7_TypedNoneOrDecoded ==
    last.op \in TypedOps =>
        /\ last.calls = <<IF last.op = "get_typed_blob" THEN "get_blob"
                          ELSE "get_state">>
        /\ last.present = None => last.result = None
        /\ last.present # None =>
              LET thing == deserializer(last.deserializer, last.present[1])
              IN  /\ ~thing.ok => last.result = None
                  /\ thing.ok => last.result = Some(thing.val)

\* get_typed_state returned none for a state that the decoder rejected.
C7_Witness ==
    /\ last.op = "get_typed_state"
    /\ last.present # None
    /\ ~deserializer(last.deserializer, last.present[1]).ok
    /\ last.result = None

\* C8: await_next_message_body returns the body of the message received,
\* request or response, and for a send error the SendError await_message
\* makes of it: the same kind, message, blob and context.
C8_BodyOrSendError ==
    last.op = "await_next_message_body" =>
        IF last.delivery.ret.ok
        THEN last.result = Ok(WitBody(last.delivery.ret.val.message))
        ELSE LET low == last.delivery.ret.err
             IN  /\ ~last.result.ok
                 /\ last.result.err.kind =
                        (IF low.send_err.kind = WitOffline THEN Offline ELSE Timeout)
                 /\ last.result.err.message.source = NetAddress
                 /\ last.result.err.message.type = low.send_err.message.type
                 /\ last.result.err.message.body = WitBody(low.send_err.message)
                 /\ last.result.err.message.metadata = WitMetadata(low.send_err.message)
                 /\ last.result.err.message.capabilities =
                        WitCapabilities(low.send_err.message)
                 /\ last.result.err.lazy_load_blob = low.send_err.lazy_load_blob
                 /\ last.result.err.context = low.context

\* await_next_message_body returned the body of a response.
C8_Witness ==
    /\ last.op = "await_next_message_body"
    /\ last.delivery.ret.ok
    /\ last.delivery.ret.val.message.type = "Response"
    /\ last.result = Ok(<<3>>)

Unparseable(text) == ~from_str(text).ok
NullOrUnparseable(text) == Unparseable(text) \/ from_str(text) = Ok(JsonNull)

\* C9: get_capability reads params that are not valid JSON as null, in the
\* lookup and in the capabilities held: a lookup with unparseable params
\* finds a capability iff one of that issuer has params that are
\* unparseable or null, a lookup for null finds a capability whose params
\* are unparseable, and what is found is a capability of that kind.
C9_UnparseableIsNull ==
    (last.op = "get_capability" /\ NullOrUnparseable(last.params)) =>
        /\ last.result # None <=>
              \E c \in Held(last.held) :
                  c.issuer = last.our /\ NullOrUnparseable(c.params)
        /\ last.result # None =>
              /\ last.result[1].issuer = last.our
              /\ NullOrUnparseable(last.result[1].params)

\* A lookup with a truncated text returned a capability whose params are
\* the text null.
C9_Witness ==
    /\ last.op = "get_capability"
    /\ last.params = TruncatedText
    /\ last.result = Some(Capability(last.our, NullText))

\* C10: whenever can_message(a) holds, get_capability(a, the marker)
\* returns a capability issued by a.
C10_CanMessageImpliesGetCapability ==
    \A a \in Addresses :
        can_message(a) =>
            /\ get_capability(a, MessagingParams) # None
            /\ get_capability(a, MessagingParams)[1].issuer = a

\* can_message answered true for one address while for another address
\* get_capability finds a messaging capability and can_message is false.
C10_Witness ==
    /\ last.op = "can_message"
    /\ last.result = TRUE
    /\ last.held = capabilities
    /\ \E b \in Addresses :
          /\ ~can_message(b)
          /\ get_capability(b, MessagingParams) # None

=============================================================================
